---- MODULE Spec2Model ----
EXTENDS Integers, Sequences, FiniteSets, TLC

(***************************************************************************)
(* Model of routing_sims' argument processing (src/args.rs): the sweep     *)
(* specifications SamplePoints<T> and their iterator, the dual quantity    *)
(* RelOrAbs, the expansion of the swept dimensions into the list of        *)
(* SimParams (ArgProc::make_sim_params) and the dispatch of one SimParams  *)
(* to its tool (SimParams::result).                                        *)
(*                                                                         *)
(* NN is the integer type of counts and RR the floating-point type of      *)
(* proportions (both imported from the crate root).  NN values are         *)
(* integers; all numerals used here are far below the width of NN.  RR is  *)
(* binary64: its arithmetic is modelled bit for bit below, since the       *)
(* values of a percentage sweep depend on its rounding.                    *)
(***************************************************************************)

(***************************************************************************)
(* Natural numbers of arbitrary size as sequences of 15-bit limbs, least   *)
(* significant limb first, no high zero limbs (<<>> is 0).  They carry the *)
(* 53-bit significands of RR = f64 and the wider exact intermediate        *)
(* results of its operations.                                              *)
(***************************************************************************)
LimbBits == 15
Base == 2 ^ LimbBits

BStrip(a) ==
    LET nz == {i \in 1..Len(a) : a[i] # 0}
    IN  IF nz = {} THEN <<>>
        ELSE SubSeq(a, 1, CHOOSE i \in nz : \A j \in nz : j <= i)

RECURSIVE BFromInt(_)
BFromInt(n) == IF n = 0 THEN <<>> ELSE <<n % Base>> \o BFromInt(n \div Base)

RECURSIVE BToInt(_)
BToInt(a) == IF a = <<>> THEN 0 ELSE a[1] + Base * BToInt(Tail(a))

BLimb(a, i) == IF i >= 1 /\ i <= Len(a) THEN a[i] ELSE 0

SmallBitLen(x) == CHOOSE k \in 0..LimbBits : x < 2 ^ k /\ (k = 0 \/ x >= 2 ^ (k - 1))

\* number of significant bits
BBitLen(a) == IF a = <<>> THEN 0 ELSE (Len(a) - 1) * LimbBits + SmallBitLen(a[Len(a)])

\* bit i (from 1, the least significant)
BBit(a, i) == (BLimb(a, (i - 1) \div LimbBits + 1) \div 2 ^ ((i - 1) % LimbBits)) % 2

BShl(a, k) ==
    LET q == k \div LimbBits
        r == k % LimbBits
    IN  BStrip([j \in 1..(Len(a) + q + 1) |->
                  (BLimb(a, j - q) % 2 ^ (LimbBits - r)) * 2 ^ r
                  + BLimb(a, j - q - 1) \div 2 ^ (LimbBits - r)])

BShr(a, k) ==
    LET q == k \div LimbBits
        r == k % LimbBits
    IN  BStrip([j \in 1..Len(a) |->
                  BLimb(a, j + q) \div 2 ^ r
                  + (BLimb(a, j + q + 1) % 2 ^ r) * 2 ^ (LimbBits - r)])

RECURSIVE BAddC(_, _, _)
BAddC(a, b, c) ==
    IF a = <<>> /\ b = <<>> THEN (IF c = 0 THEN <<>> ELSE <<c>>)
    ELSE LET t == BLimb(a, 1) + BLimb(b, 1) + c
         IN  <<t % Base>> \o BAddC(IF a = <<>> THEN a ELSE Tail(a),
                                   IF b = <<>> THEN b ELSE Tail(b), t \div Base)

BAdd(a, b) == BAddC(a, b, 0)

\* a - b for a >= b
RECURSIVE BSubC(_, _, _)
BSubC(a, b, c) ==
    IF a = <<>> THEN <<>>
    ELSE LET t == a[1] - BLimb(b, 1) - c
         IN  <<t % Base>> \o BSubC(Tail(a), IF b = <<>> THEN b ELSE Tail(b),
                                   IF t < 0 THEN 1 ELSE 0)

BSub(a, b) == BStrip(BSubC(a, b, 0))

\* -1, 0, 1 as a < b, a = b, a > b
BCmp(a, b) ==
    IF Len(a) > Len(b) THEN 1
    ELSE IF Len(a) < Len(b) THEN -1
    ELSE LET df == {i \in 1..Len(a) : a[i] # b[i]}
         IN  IF df = {} THEN 0
             ELSE LET i == CHOOSE x \in df : \A y \in df : y <= x
                  IN  IF a[i] > b[i] THEN 1 ELSE -1

\* a * n for one limb n
RECURSIVE BMulLimbC(_, _, _)
BMulLimbC(a, n, c) ==
    IF a = <<>> THEN (IF c = 0 THEN <<>> ELSE <<c>>)
    ELSE LET t == a[1] * n + c
         IN  <<t % Base>> \o BMulLimbC(Tail(a), n, t \div Base)

RECURSIVE BMul(_, _)
BMul(a, b) ==
    IF b = <<>> \/ a = <<>> THEN <<>>
    ELSE BAdd(BMulLimbC(a, b[1], 0), <<0>> \o BMul(a, Tail(b)))

\* long division of a by the small number d (d * Base fits an integer),
\* from the top limb down: <<quotient, remainder>>
RECURSIVE BDivRec(_, _, _, _, _)
BDivRec(a, d, i, q, r) ==
    IF i = 0 THEN <<q, r>>
    ELSE LET t == r * Base + a[i]
         IN  BDivRec(a, d, i - 1, <<t \div d>> \o q, t % d)

BDivStrip(qr) == <<BStrip(qr[1]), qr[2]>>

BDivSmall(a, d) == BDivStrip(BDivRec(a, d, Len(a), <<>>, 0))

(***************************************************************************)
(* RR = f64: IEEE 754 binary64 values sign * m * 2^e, kept in the unique   *)
(* form with m odd (zero: m = <<>>, e = 0); every operation rounds its     *)
(* exact result to 53 significant bits, to nearest, ties to even.          *)
(* The exponent range, infinities and NaN are outside the values the       *)
(* sweeps below reach.                                                     *)
(***************************************************************************)
MantBits == 53

FZero == [neg |-> FALSE, m |-> <<>>, e |-> 0]

BLowZeros(m) ==
    CHOOSE z \in 0..BBitLen(m) : BBit(m, z + 1) = 1 /\ \A j \in 1..z : BBit(m, j) = 0

FShifted(neg, m, e, z) == [neg |-> neg, m |-> BShr(m, z), e |-> e + z]

FCanon(neg, m, e) == IF m = <<>> THEN FZero ELSE FShifted(neg, m, e, BLowZeros(m))

\* kept: the 53 leading bits; half: the first bit dropped; rest: any bit below it
FRoundKept(neg, kept, e, half, rest) ==
    FCanon(neg, IF half /\ (rest \/ BBit(kept, 1) = 1) THEN BAdd(kept, <<1>>) ELSE kept, e)

FRoundDrop(neg, m, e, sticky, drop) ==
    IF drop <= 0 THEN FRoundKept(neg, m, e, FALSE, FALSE)
    ELSE FRoundKept(neg, BShr(m, drop), e + drop, BBit(m, drop) = 1,
                    sticky \/ \E i \in 1..(drop - 1) : BBit(m, i) = 1)

\* round the exact value m * 2^e (plus a nonzero tail below it when sticky)
FRound(neg, m, e, sticky) == FRoundDrop(neg, m, e, sticky, BBitLen(m) - MantBits)

FFromNat(n) == FCanon(FALSE, BFromInt(n), 0)

\* the significands of x and y over their common (smaller) exponent
FAlignTo(x, y, e) == <<BShl(x.m, x.e - e), BShl(y.m, y.e - e), e>>

FAlign(x, y) == FAlignTo(x, y, IF x.e <= y.e THEN x.e ELSE y.e)

FCmpSigned(xneg, yneg, c) ==
    IF xneg /\ ~yneg THEN -1
    ELSE IF ~xneg /\ yneg THEN 1
    ELSE IF xneg THEN -c ELSE c

FCmpAligned(xneg, yneg, al) == FCmpSigned(xneg, yneg, BCmp(al[1], al[2]))

\* -1, 0, 1 as x < y, x = y, x > y
FCmp(x, y) == FCmpAligned(x.neg, y.neg, FAlign(x, y))

\* c: the magnitudes compared
FAddSigned(xneg, yneg, al, c) ==
    IF xneg # yneg /\ c = 0 THEN FZero
    ELSE FRound(IF xneg = yneg \/ c > 0 THEN xneg ELSE yneg,
                IF xneg = yneg THEN BAdd(al[1], al[2])
                ELSE IF c > 0 THEN BSub(al[1], al[2]) ELSE BSub(al[2], al[1]),
                al[3], FALSE)

FAddAligned(xneg, yneg, al) == FAddSigned(xneg, yneg, al, BCmp(al[1], al[2]))

FAdd(x, y) == FAddAligned(x.neg, y.neg, FAlign(x, y))

FMul(x, y) == FRound(x.neg # y.neg, BMul(x.m, y.m), x.e + y.e, FALSE)

FRoundQuot(neg, qr, e) == FRound(neg, qr[1], e, qr[2] # 0)

\* the value n / 10^k of a decimal numeral (k <= 3), correctly rounded
FFromDecimal(neg, n, k) == FRoundQuot(neg, BDivSmall(BShl(BFromInt(n), 75), 10 ^ k), -75)

\* `as NN` of a float: the integer part, towards zero, negative to 0
FToNat(x) ==
    IF x.neg THEN 0
    ELSE IF x.e >= 0 THEN BToInt(BShl(x.m, x.e))
    ELSE BToInt(BShr(x.m, -x.e))

(***************************************************************************)
(* Values.  Option<T> is None or the value itself; a panic!() or a failed  *)
(* expect() is the value Panic(msg), which every caller passes on.         *)
(***************************************************************************)
None == [tag |-> "None"]
Panic(msg) == [tag |-> "panic", msg |-> msg]
IsPanic(x) == "tag" \in DOMAIN x /\ x.tag = "panic"
Err == [tag |-> "Err"]

NNv(n) == [tag |-> "NN", n |-> n]
RRv(f) == [tag |-> "RR", f |-> f]
Rel(f) == [tag |-> "Rel", f |-> f]
Abs(n) == [tag |-> "Abs", n |-> n]

(***************************************************************************)
(* Strings are sequences of characters.                                    *)
(***************************************************************************)
DigitChars == <<"0", "1", "2", "3", "4", "5", "6", "7", "8", "9">>
IsDigit(c) == \E d \in 1..10 : DigitChars[d] = c
DigitVal(c) == (CHOOSE d \in 1..10 : DigitChars[d] = c) - 1

Contains(s, c) == \E i \in 1..Len(s) : s[i] = c

\* str::split(c): the pieces between the occurrences of c, in order
Split(s, c) ==
    LET cuts == {i \in 1..Len(s) : s[i] = c}
        ends == cuts \cup {Len(s) + 1}
        from(e) == IF \E x \in cuts : x < e
                   THEN (CHOOSE x \in cuts : x < e /\ \A y \in cuts : y < e => y <= x) + 1
                   ELSE 1
        nth(k) == CHOOSE e \in ends : Cardinality({x \in ends : x < e}) = k - 1
    IN  [k \in 1..Cardinality(ends) |-> SubSeq(s, from(nth(k)), nth(k) - 1)]

RECURSIVE DecValue(_)
DecValue(s) == IF s = <<>> THEN 0
               ELSE 10 * DecValue(SubSeq(s, 1, Len(s) - 1)) + DigitVal(s[Len(s)])

AllDigits(s) == \A i \in 1..Len(s) : IsDigit(s[i])

\* <NN as FromStr>::from_str on digits (a sign or any other character fails)
NN_from_str(s) == IF s # <<>> /\ AllDigits(s) THEN NNv(DecValue(s)) ELSE Err

\* <RR as FromStr>::from_str on [-]digits[.digits]: the nearest binary64
F64_from_parts(neg, ip, fp, n) ==
    IF n > 2 \/ ~AllDigits(ip) \/ ~AllDigits(fp) \/ ip \o fp = <<>>
    THEN Err
    ELSE FFromDecimal(neg, DecValue(ip \o fp), Len(fp))

F64_from_split(neg, parts) ==
    F64_from_parts(neg, parts[1], IF Len(parts) = 2 THEN parts[2] ELSE <<>>, Len(parts))

F64_from_str(s) ==
    IF s # <<>> /\ s[1] = "-" THEN F64_from_split(TRUE, Split(Tail(s), "."))
    ELSE F64_from_split(FALSE, Split(s, "."))

RR_of(f) == IF f = Err THEN Err ELSE RRv(f)

RR_from_str(s) == RR_of(F64_from_str(s))

(***************************************************************************)
(* RelOrAbs                                                                *)
(***************************************************************************)
RelOrAbs_from_base(self, base) ==
    IF self.tag = "Rel" THEN FToNat(FMul(FFromNat(base), self.f)) ELSE self.n

\* Rel(perc * 0.01), or the panic of expect("parse")
Rel_of_perc(perc) ==
    IF perc = Err THEN Panic("parse") ELSE Rel(FMul(perc, FFromDecimal(FALSE, 1, 2)))

Abs_of(n) == IF n = Err THEN Panic("parse") ELSE Abs(n.n)

RelOrAbs_from_str(s) ==
    IF s # <<>> /\ s[Len(s)] = "%"
    THEN Rel_of_perc(F64_from_str(SubSeq(s, 1, Len(s) - 1)))
    ELSE Abs_of(NN_from_str(s))

\* a mismatch leaves self as it is
RelOrAbs_add_assign_lenient(self, rhs) ==
    IF self.tag = "Rel" /\ rhs.tag = "Rel" THEN Rel(FAdd(self.f, rhs.f))
    ELSE IF self.tag = "Abs" /\ rhs.tag = "Abs" THEN Abs(self.n + rhs.n)
    ELSE self

RelOrAbs_add_assign(self, rhs) ==
    IF self.tag = "Rel" /\ rhs.tag = "Rel" THEN Rel(FAdd(self.f, rhs.f))
    ELSE IF self.tag = "Abs" /\ rhs.tag = "Abs" THEN Abs(self.n + rhs.n)
    ELSE Panic("wrong rel/abs type!")

IntCmp(x, y) == IF x < y THEN -1 ELSE IF x = y THEN 0 ELSE 1

\* Some(Ordering), the ordering as -1 (Less), 0 (Equal), 1 (Greater)
Ord(c) == [tag |-> "Ordering", c |-> c]
Bool(b) == [tag |-> "bool", b |-> b]

RelOrAbs_partial_cmp(self, rhs) ==
    IF self.tag = "Rel" /\ rhs.tag = "Rel" THEN Ord(FCmp(self.f, rhs.f))
    ELSE IF self.tag = "Abs" /\ rhs.tag = "Abs" THEN Ord(IntCmp(self.n, rhs.n))
    ELSE Panic("wrong rel/abs type!")

RelOrAbs_default_step(x) ==
    IF x.tag = "Rel" THEN Rel(FFromDecimal(FALSE, 1, 1)) ELSE Abs(1)

(***************************************************************************)
(* The capabilities of a swept quantity T, one implementation per type.    *)
(* The type of a value is its tag; T names it where no value is at hand.   *)
(***************************************************************************)
NN_default_step(x) == NNv(1)

RR_default_step(x) == RRv(FFromNat(1))

default_step(x) ==
    IF x.tag = "NN" THEN NN_default_step(x)
    ELSE IF x.tag = "RR" THEN RR_default_step(x)
    ELSE RelOrAbs_default_step(x)

\* x += rhs
add_assign(x, rhs) ==
    IF x.tag = "NN" THEN NNv(x.n + rhs.n)
    ELSE IF x.tag = "RR" THEN RRv(FAdd(x.f, rhs.f))
    ELSE RelOrAbs_add_assign(x, rhs)

partial_cmp(x, y) ==
    IF x.tag = "NN" THEN Ord(IntCmp(x.n, y.n))
    ELSE IF x.tag = "RR" THEN Ord(FCmp(x.f, y.f))
    ELSE RelOrAbs_partial_cmp(x, y)

\* x >= y
ge_of(c) == IF IsPanic(c) THEN c ELSE Bool(c.c >= 0)

\* x > y by PartialOrd::gt: a bool, or the panic of partial_cmp
gt_of(c) == IF IsPanic(c) THEN c ELSE Bool(c.c = 1)

gt(x, y) == gt_of(partial_cmp(x, y))

\* str::parse::<T>().expect("parse")
expect_parse(r) == IF r = Err THEN Panic("parse") ELSE r

parse(T, s) ==
    expect_parse(IF T = "NN" THEN NN_from_str(s)
                 ELSE IF T = "RR" THEN RR_from_str(s)
                 ELSE RelOrAbs_from_str(s))

unwrap_or(o, d) == IF o = None THEN d ELSE o

(***************************************************************************)
(* SamplePoints<T>                                                         *)
(***************************************************************************)
Range(start, stop, step) == [kind |-> "Range", start |-> start, stop |-> stop, step |-> step]
List(v) == [kind |-> "List", v |-> v]
Number(n) == [kind |-> "Number", n |-> n]

FirstPanic(xs) ==
    LET bad == {i \in 1..Len(xs) : IsPanic(xs[i])}
    IN  IF bad = {} THEN None ELSE xs[CHOOSE i \in bad : \A j \in bad : i <= j]

ExpectedRange == Panic("expected 'start-stop:step'")

\* the parts parsed, in the order the code parses them; n: the pieces of
\* the first half between '-'
Range_of(step, start, stop, n) ==
    IF FirstPanic(<<step, start, stop>>) # None THEN FirstPanic(<<step, start, stop>>)
    ELSE IF n > 2 THEN ExpectedRange
    ELSE Range(start, stop, step)

Range_from_halves(T, dash, step) ==
    Range_of(step, parse(T, dash[1]),
             IF Len(dash) >= 2 THEN parse(T, dash[2]) ELSE ExpectedRange, Len(dash))

Range_from_str(T, s, colon) ==
    IF Contains(s, ":")
    THEN IF Len(colon) > 2 THEN ExpectedRange
         ELSE Range_from_halves(T, Split(colon[1], "-"), parse(T, colon[2]))
    ELSE Range_from_halves(T, Split(s, "-"), None)

List_of(vals) == IF FirstPanic(vals) # None THEN FirstPanic(vals) ELSE List(vals)

Number_of(n) == IF IsPanic(n) THEN n ELSE Number(n)

SamplePoints_from_str(T, s) ==
    IF Contains(s, "-") THEN Range_from_str(T, s, Split(s, ":"))
    ELSE IF Contains(s, ",")
    THEN List_of([i \in 1..Len(Split(s, ",")) |-> parse(T, Split(s, ",")[i])])
    ELSE Number_of(parse(T, s))

\* SamplePoints::iter
iter(self) == [i |-> 0, prev |-> None]

\* the Range arm of next once x += step is done: self.prev = Some(x), then
\* x > stop decides
Range_compare(it, x, over) ==
    IF IsPanic(over) THEN [it |-> [it EXCEPT !.prev = x], ret |-> over]
    ELSE [it |-> [it EXCEPT !.prev = x], ret |-> IF over.b THEN None ELSE x]

Range_advance(it, stop, x) ==
    IF IsPanic(x) THEN [it |-> it, ret |-> x] ELSE Range_compare(it, x, gt(x, stop))

\* SamplePointsIterator::next on the iterator it over self:
\* [it |-> the iterator after the call, ret |-> None, the value, or a panic]
next(it, self) ==
    IF self.kind = "Range"
    THEN IF it.prev = None
         THEN [it |-> [it EXCEPT !.prev = self.start], ret |-> self.start]
         ELSE Range_advance(it, self.stop,
                            add_assign(it.prev, unwrap_or(self.step, default_step(self.start))))
    ELSE IF self.kind = "List"
    THEN IF it.i >= Len(self.v) THEN [it |-> it, ret |-> None]
         ELSE [it |-> [it EXCEPT !.i = it.i + 1], ret |-> self.v[it.i + 1]]
    ELSE IF it.i > 0 THEN [it |-> it, ret |-> None]
         ELSE [it |-> [it EXCEPT !.i = 1], ret |-> self.n]

\* std::slice::Iter::next over a Vec, in the shape of next above
Vec(v) == [kind |-> "Vec", v |-> v]

slice_next(it, self) ==
    IF it.i >= Len(self.v) THEN [it |-> it, ret |-> None]
    ELSE [it |-> [it EXCEPT !.i = it.i + 1], ret |-> self.v[it.i + 1]]

(***************************************************************************)
(* ArgProc::make_sim_params                                                *)
(***************************************************************************)
AttackType(name) == [tag |-> "AttackType", name |-> name]

DefaultNodes == 1000
DefaultGroupSize == 10
DefaultMaxSteps == 1000
DefaultRepetitions == 100

\* Option<String>: None or Some(s)
SomeStr(s) == [tag |-> "Some", s |-> s]

\* the swept dimensions, in the order of the replication loops: num_nodes,
\* num_malicious, min_group_size, quorum_prop, age_quorum, targetting
Dims == 1..6

\* flag.map_or(default, |s| s.parse().expect("parse"))
map_or_parse(T, flag, default) ==
    IF flag = None THEN default ELSE SamplePoints_from_str(T, flag.s)

nodes_range(f) == [T |-> "NN", flag |-> f.flag_n, default |-> Number(NNv(DefaultNodes))]

mal_nodes_range(f) ==
    [T |-> "RelOrAbs", flag |-> f.flag_r, default |-> Number(Rel(FFromDecimal(FALSE, 1, 1)))]

group_size_range(f) ==
    [T |-> "NN", flag |-> f.flag_k, default |-> Number(NNv(DefaultGroupSize))]

quorum_range(f) ==
    [T |-> "RR", flag |-> f.flag_q, default |-> Number(RRv(FFromDecimal(FALSE, 5, 1)))]

q_use_age(f) ==
    IF f.flag_Q = None THEN Vec(<<Bool(FALSE)>>)
    ELSE IF f.flag_Q.s = "simple" THEN Vec(<<Bool(FALSE)>>)
    ELSE IF f.flag_Q.s = "age" THEN Vec(<<Bool(TRUE)>>)
    ELSE IF f.flag_Q.s = "all" THEN Vec(<<Bool(FALSE), Bool(TRUE)>>)
    ELSE Panic("unexpected: -Q")

at_type(f) ==
    IF f.flag_T = None THEN Vec(<<AttackType("Untargetted")>>)
    ELSE IF f.flag_T.s = "none" THEN Vec(<<AttackType("Untargetted")>>)
    ELSE IF f.flag_T.s = "simple" THEN Vec(<<AttackType("SimpleTargetted")>>)
    ELSE IF f.flag_T.s = "all"
    THEN Vec(<<AttackType("Untargetted"), AttackType("SimpleTargetted")>>)
    ELSE Panic("unexpected: -T")

sweep_flag(f, d) ==
    CASE d = 1 -> nodes_range(f)
      [] d = 2 -> mal_nodes_range(f)
      [] d = 3 -> group_size_range(f)
      [] d = 4 -> quorum_range(f)

parsed_sweep(sw) == map_or_parse(sw.T, sw.flag, sw.default)

\* the six sample sets, built in this order; each is the set or the panic
\* of building it
sample_ranges(f) ==
    [d \in Dims |-> IF d <= 4 THEN parsed_sweep(sweep_flag(f, d))
                    ELSE IF d = 5 THEN q_use_age(f) ELSE at_type(f)]

dim_next(it, self) == IF self.kind = "Vec" THEN slice_next(it, self) ELSE next(it, self)

\* .next().expect("first iter item")
expect_first(r) == IF r.ret = None THEN Panic("first iter item") ELSE r.ret

sim_type(f) ==
    IF f.cmd_calc THEN "DirectCalc"
    ELSE IF f.cmd_structure THEN "Structure"
    ELSE IF f.cmd_full THEN "FullSim"
    ELSE "unreachable"

\* the initial parameter set; first[d]: the first item of dimension d
InitialParams(f, first) ==
    [sim_type       |-> sim_type(f),
     age_quorum     |-> first[5],
     targetting     |-> first[6],
     num_nodes      |-> first[1],
     num_malicious  |-> first[2],
     min_group_size |-> first[3],
     quorum_prop    |-> first[4],
     max_steps      |-> unwrap_or(f.flag_s, DefaultMaxSteps),
     repetitions    |-> unwrap_or(f.flag_p, DefaultRepetitions)]

\* the field each replication loop overrides
SetField(s, d, x) ==
    CASE d = 1 -> [s EXCEPT !.num_nodes = x]
      [] d = 2 -> [s EXCEPT !.num_malicious = x]
      [] d = 3 -> [s EXCEPT !.min_group_size = x]
      [] d = 4 -> [s EXCEPT !.quorum_prop = x]
      [] d = 5 -> [s EXCEPT !.age_quorum = x]
      [] d = 6 -> [s EXCEPT !.targetting = x]

\* the loop over all of v, not over the range taken before it
Replicated_all(vv, rng, d, x) == vv \o [i \in 1..Len(vv) |-> SetField(vv[i], d, x)]

\* the copies put before v
Replicated_front(vv, rng, d, x) == [i \in 1..rng |-> SetField(vv[i], d, x)] \o vv

\* for i in range.clone() { let mut s = v[i].clone(); s.<field> = x; v.push(s); }
Replicated(vv, rng, d, x) == vv \o [i \in 1..rng |-> SetField(vv[i], d, x)]

(***************************************************************************)
(* SimParams::result                                                       *)
(***************************************************************************)
\* ToolArgs built by result(): the malicious quantity resolved against num_nodes
ToolArgs(p) ==
    [num_nodes      |-> p.num_nodes.n,
     num_malicious  |-> RelOrAbs_from_base(p.num_malicious, p.num_nodes.n),
     min_group_size |-> p.min_group_size.n,
     quorum_prop    |-> p.quorum_prop.f,
     any_group      |-> TRUE,
     max_steps      |-> p.max_steps,
     repetitions    |-> p.repetitions]

\* ToolArgs::check_invariant (defined with ToolArgs, outside args.rs): the
\* invariants every configuration has, whatever its tool
check_invariant(a) ==
    /\ a.min_group_size >= 1
    /\ FCmp(a.quorum_prop, FZero) = 1
    /\ FCmp(a.quorum_prop, FFromNat(1)) <= 0
    /\ a.num_malicious <= a.num_nodes

NoTool == [kind |-> "none", quorum |-> "-", attack |-> "-"]

FullSimTool(quorum, attack) == [kind |-> "FullSimTool", quorum |-> quorum, attack |-> attack]

\* the quorum arms the other way round
SelectTool_swapped(p) ==
    IF p.sim_type = "DirectCalc"
    THEN [kind |-> "DirectCalcTool", quorum |-> "-", attack |-> "-"]
    ELSE IF p.sim_type = "Structure"
    THEN [kind |-> "SimStructureTool", quorum |-> "-", attack |-> "-"]
    ELSE IF p.age_quorum.b /\ p.targetting.name = "Untargetted"
    THEN FullSimTool("SimpleQuorum", "UntargettedAttack")
    ELSE IF ~p.age_quorum.b /\ p.targetting.name = "Untargetted"
    THEN FullSimTool("AgeQuorum", "UntargettedAttack")
    ELSE IF ~p.age_quorum.b /\ p.targetting.name = "SimpleTargetted"
    THEN FullSimTool("SimpleQuorum", "SimpleTargettedAttack")
    ELSE FullSimTool("AgeQuorum", "SimpleTargettedAttack")

\* the match on sim_type and (age_quorum, targetting)
SelectTool(p) ==
    IF p.sim_type = "DirectCalc"
    THEN [kind |-> "DirectCalcTool", quorum |-> "-", attack |-> "-"]
    ELSE IF p.sim_type = "Structure"
    THEN [kind |-> "SimStructureTool", quorum |-> "-", attack |-> "-"]
    ELSE IF ~p.age_quorum.b /\ p.targetting.name = "Untargetted"
    THEN FullSimTool("SimpleQuorum", "UntargettedAttack")
    ELSE IF p.age_quorum.b /\ p.targetting.name = "Untargetted"
    THEN FullSimTool("AgeQuorum", "UntargettedAttack")
    ELSE IF ~p.age_quorum.b /\ p.targetting.name = "SimpleTargetted"
    THEN FullSimTool("SimpleQuorum", "SimpleTargettedAttack")
    ELSE FullSimTool("AgeQuorum", "SimpleTargettedAttack")

(***************************************************************************)
(* State                                                                   *)
(***************************************************************************)
VARIABLES
    ipc,      \* one SamplePoints under iteration: "off", "parse", "run", "panic"
    ty,       \* its quantity type T
    flag,     \* the string it is parsed from
    points,   \* the SamplePoints<T>
    cur,      \* the iterators "A" and "B" over it: cursor, values yielded, ended
    flags,    \* Args as decoded from the command line
    epc,      \* make_sim_params: "off", "begin", "replicate", "done", "panic"
    specs,    \* the six sweeps, in the order of the replication loops
    its,      \* their iterators
    v,        \* the Vec<SimParams> being built
    dim,      \* the replication loop under way
    range,    \* its range 0..v.len(), as the length
    pre,      \* v as that loop found it
    samples,  \* the values each sweep's iterator has yielded
    rpc,      \* result(): "idle", "args", "checked", "tool", "done", "panic"
    sel,      \* the index in v of the SimParams result() is called on
    args,     \* its ToolArgs
    tool,     \* the tool constructed
    result,   \* the SimResult returned
    err       \* the message of the panic that ended the run

iterVars   == <<ipc, ty, flag, points, cur>>
expandVars == <<flags, epc, specs, its, v, dim, range, pre, samples>>
resultVars == <<rpc, sel, args, tool, result>>
vars == <<ipc, ty, flag, points, cur, flags, epc, specs, its, v, dim, range, pre,
          samples, rpc, sel, args, tool, result, err>>

(***************************************************************************)
(* Bounds and inputs                                                       *)
(***************************************************************************)
MaxNum == 5       \* integer numerals 0..MaxNum (and 10, 20) in the iterated sweeps
MaxYield == 5     \* values followed per iterator
MaxSamples == 4   \* values followed per sweep in make_sim_params

RECURSIVE IntStr(_)
IntStr(n) == IF n < 10 THEN <<DigitChars[n + 1]>>
             ELSE IntStr(n \div 10) \o <<DigitChars[(n % 10) + 1]>>

\* the sweep strings "a", "a,b", "a-b" and "a-b:c" over the tokens
SweepStrings(toks, steps, items) ==
    toks
    \cup {a \o <<"-">> \o b : a \in toks, b \in toks}
    \cup {a \o <<"-">> \o b \o <<":">> \o c : a \in toks, b \in toks, c \in steps}
    \cup {a \o <<",">> \o b : a \in items, b \in items}

NNToks == {IntStr(n) : n \in 0..MaxNum} \cup {IntStr(10), IntStr(20)}
NNSteps == {IntStr(n) : n \in 0..MaxNum} \cup {<<"-", "1">>}
RRToks == {<<"0">>, <<"0", ".", "1">>, <<"0", ".", "3">>, <<"0", ".", "5">>,
           <<"0", ".", "7">>, <<"1">>}
RRSteps == {<<"0">>, <<"0", ".", "1">>, <<"0", ".", "2">>, <<"1">>,
            <<"-", "0", ".", "1">>, <<"-", "0", ".", "3">>}
RAToks == {<<"0", "%">>, <<"1", "0", "%">>, <<"3", "0", "%">>, <<"5", "0", "%">>,
           <<"1">>, <<"3">>}
RASteps == {<<"1", "0", "%">>, <<"2", "0", "%">>, <<"0", "%">>, <<"1">>, <<"0">>,
            <<"-", "1", "0", "%">>}

Malformed == {<<"3", "-">>, <<"3", "-", "4", "-", "5">>, <<"3", "-", "4", ":", "1", ":", "1">>,
              <<"x">>, <<"1", ",", ",", "2">>, <<>>}

IterFlags(T) ==
    IF T = "NN"
    THEN SweepStrings(NNToks, NNSteps, {IntStr(n) : n \in 0..2})
         \cup {<<"1", ",", "2", ",", "5">>} \cup Malformed
    ELSE IF T = "RR"
    THEN SweepStrings(RRToks, RRSteps, {<<"0", ".", "5">>, <<"1">>}) \cup Malformed
    ELSE SweepStrings(RAToks, RASteps, {<<"1", "0", "%">>, <<"3">>}) \cup Malformed

NoCursor == [live |-> FALSE, it |-> iter(None), out |-> <<>>, ended |-> FALSE]

IterOff ==
    /\ ipc = "off" /\ ty = "NN" /\ flag = <<>> /\ points = None
    /\ cur = [k \in {"A", "B"} |-> NoCursor]

ExpandOff ==
    /\ flags = None /\ epc = "off" /\ specs = <<>> /\ its = <<>> /\ v = <<>>
    /\ dim = 0 /\ range = 0 /\ pre = <<>> /\ samples = <<>>

ResultOff ==
    /\ rpc = "idle" /\ sel = 0 /\ args = None /\ tool = NoTool /\ result = None

(***************************************************************************)
(* One SamplePoints<T>: parsed from a string, then iterated by two         *)
(* iterators, each created by iter() at any time and stepped by next()     *)
(* until it returns None, as a for loop does.                              *)
(***************************************************************************)
InitIter ==
    /\ ipc = "parse"
    /\ ty \in {"NN", "RR", "RelOrAbs"}
    /\ flag \in IterFlags(ty)
    /\ points = None
    /\ cur = [k \in {"A", "B"} |-> NoCursor]
    /\ ExpandOff /\ ResultOff
    /\ err = None

ParseFlag ==
    /\ ipc = "parse"
    /\ \E sp \in {SamplePoints_from_str(ty, flag)} :
          IF IsPanic(sp)
          THEN ipc' = "panic" /\ err' = sp.msg /\ points' = points
          ELSE ipc' = "run" /\ points' = sp /\ err' = err
    /\ UNCHANGED <<ty, flag, cur>>
    /\ UNCHANGED expandVars /\ UNCHANGED resultVars

\* an iterator that takes up the position of the other one
Iter_resumed(k) ==
    /\ ipc = "run"
    /\ ~cur[k].live
    /\ cur' = [cur EXCEPT ![k] = [live |-> TRUE,
                                  it |-> cur[CHOOSE j \in {"A", "B"} : j # k].it,
                                  out |-> <<>>, ended |-> FALSE]]
    /\ UNCHANGED <<ipc, ty, flag, points, err>>
    /\ UNCHANGED expandVars /\ UNCHANGED resultVars

Iter(k) ==
    /\ ipc = "run"
    /\ ~cur[k].live
    /\ cur' = [cur EXCEPT ![k] = [live |-> TRUE, it |-> iter(points),
                                  out |-> <<>>, ended |-> FALSE]]
    /\ UNCHANGED <<ipc, ty, flag, points, err>>
    /\ UNCHANGED expandVars /\ UNCHANGED resultVars

NextCall(k) ==
    /\ ipc = "run"
    /\ cur[k].live /\ ~cur[k].ended
    /\ Len(cur[k].out) < MaxYield
    /\ \E r \in {next(cur[k].it, points)} :
          IF IsPanic(r.ret)
          THEN ipc' = "panic" /\ err' = r.ret.msg /\ cur' = cur
          ELSE /\ ipc' = ipc /\ err' = err
               /\ cur' = [cur EXCEPT ![k] =
                            IF r.ret = None
                            THEN [@ EXCEPT !.it = r.it, !.ended = TRUE]
                            ELSE [@ EXCEPT !.it = r.it, !.out = Append(@, r.ret)]]
    /\ UNCHANGED <<ty, flag, points>>
    /\ UNCHANGED expandVars /\ UNCHANGED resultVars

NextIter == ParseFlag \/ (\E k \in {"A", "B"} : Iter(k)) \/ (\E k \in {"A", "B"} : NextCall(k))

SpecIter == InitIter /\ [][NextIter]_vars

(***************************************************************************)
(* make_sim_params on the decoded arguments: the sample sets are built and *)
(* the initial parameter set pushed, then the six replication loops run,   *)
(* one iteration of a loop (one call of its iterator's next) at a time.    *)
(***************************************************************************)
Args(n, r, k, q, Q, T, cmd) ==
    [flag_n |-> n, flag_r |-> r, flag_k |-> k, flag_q |-> q, flag_Q |-> Q, flag_T |-> T,
     flag_s |-> None, flag_p |-> None,
     cmd_calc |-> cmd = "calc", cmd_structure |-> cmd = "structure", cmd_full |-> cmd = "full"]

Opt(strs) == {None} \cup {SomeStr(s) : s \in strs}

ExpandFlags ==
    {Args(n, r, k, q, Q, T, "full") :
        n \in Opt({<<"1", ",", "2">>, <<"2", "-", "4">>, <<"3", "-", "5", ":", "0">>}),
        r \in Opt({<<"1", "0", "%", "-", "3", "0", "%">>, <<"1", "-", "3", ":", "2">>,
                   <<"5", "%", ",", "2">>, <<"1", "-", "2", "0", "%">>,
                   <<"1", "0", "%", "-", "2">>, <<"1", "0", "%", "-", "3", "0", "%", ":", "1">>}),
        k \in Opt({<<"2", ",", "2">>, <<"8", "-", "1", "0">>, <<"x">>}),
        q \in Opt({<<"0", ".", "5", "-", "0", ".", "7", ":", "0", ".", "1">>,
                   <<"0", ".", "5", ",", "1">>}),
        Q \in Opt({"age", "all", "bogus"}),
        T \in Opt({"simple", "all", "bogus"})}

InitExpand ==
    /\ IterOff /\ ResultOff
    /\ flags \in ExpandFlags
    /\ epc = "begin" /\ specs = <<>> /\ its = <<>> /\ v = <<>>
    /\ dim = 0 /\ range = 0 /\ pre = <<>> /\ samples = <<>>
    /\ err = None

\* the sample sets rs are built: their iterators are created, the initial
\* parameter set is pushed and the first loop's range taken
PushInitial(rs, first) ==
    /\ specs' = rs
    /\ its' = [d \in Dims |-> first[d].it]
    /\ samples' = [d \in Dims |-> <<expect_first(first[d])>>]
    /\ v' = <<InitialParams(flags, [d \in Dims |-> expect_first(first[d])])>>
    /\ pre' = v'
    /\ dim' = 1 /\ range' = 1
    /\ epc' = "replicate" /\ err' = err

MakeSimParamsBegin ==
    /\ epc = "begin"
    /\ \E rs \in {sample_ranges(flags)} :
          IF FirstPanic(rs) # None
          THEN /\ epc' = "panic" /\ err' = FirstPanic(rs).msg
               /\ UNCHANGED <<specs, its, v, dim, range, pre, samples>>
          ELSE PushInitial(rs, [d \in Dims |-> dim_next(iter(rs[d]), rs[d])])
    /\ UNCHANGED flags
    /\ UNCHANGED iterVars /\ UNCHANGED resultVars

\* one iteration of the loop over dimension dim: the iterator panics, ends
\* (the next loop takes its range, the last loop returns v) or yields a value,
\* which the inner loop replicates
ReplicateWith(r) ==
    IF IsPanic(r.ret)
    THEN /\ epc' = "panic" /\ err' = r.ret.msg
         /\ UNCHANGED <<its, v, dim, range, pre, samples>>
    ELSE /\ its' = [its EXCEPT ![dim] = r.it]
         /\ err' = err
         /\ IF r.ret = None
            THEN /\ IF dim = 6 THEN epc' = "done" /\ dim' = dim /\ range' = range /\ pre' = pre
                    ELSE epc' = epc /\ dim' = dim + 1 /\ range' = Len(v) /\ pre' = v
                 /\ UNCHANGED <<v, samples>>
            ELSE /\ v' = Replicated(v, range, dim, r.ret)
                 /\ samples' = [samples EXCEPT ![dim] = Append(@, r.ret)]
                 /\ UNCHANGED <<epc, dim, range, pre>>

Replicate ==
    /\ epc = "replicate"
    /\ Len(samples[dim]) < MaxSamples
    /\ \E r \in {dim_next(its[dim], specs[dim])} : ReplicateWith(r)
    /\ UNCHANGED <<flags, specs>>
    /\ UNCHANGED iterVars /\ UNCHANGED resultVars

NextExpand == MakeSimParamsBegin \/ Replicate

SpecExpand == InitExpand /\ [][NextExpand]_vars

(***************************************************************************)
(* SimParams::result on the configurations make_sim_params returned: any   *)
(* of them, one call at a time.  A call builds the ToolArgs, checks their  *)
(* invariant, constructs the tool and invokes it.                          *)
(***************************************************************************)
AllResultFlags ==
    {Args(n, r, k, q, Q, T, cmd) :
        n \in Opt({<<"1", "0", "0">>, <<"5", "0">>, <<"5", "0", "0">>}),
        r \in Opt({<<"5", "8", "%">>, <<"2", "9", "%">>, <<"2", "0", "%">>, <<"7">>,
                   <<"1", "5", "0", "%">>}),
        k \in Opt({<<"0">>}),
        q \in Opt({<<"0">>, <<"0", ".", "5", ",", "1">>}),
        Q \in Opt({"all"}),
        T \in Opt({"all"}),
        cmd \in {"calc", "structure", "full"}}

\* -Q and -T are options of the full command alone
ResultFlags ==
    {a \in AllResultFlags : a.cmd_full \/ (a.flag_Q = None /\ a.flag_T = None)}

InitResult ==
    /\ IterOff /\ ResultOff
    /\ flags \in ResultFlags
    /\ epc = "begin" /\ specs = <<>> /\ its = <<>> /\ v = <<>>
    /\ dim = 0 /\ range = 0 /\ pre = <<>> /\ samples = <<>>
    /\ err = None

\* let args = ToolArgs { .. };
ResultCall(i) ==
    /\ epc = "done"
    /\ rpc \in {"idle", "done"}
    /\ sel' = i
    /\ args' = ToolArgs(v[i])
    /\ tool' = NoTool /\ result' = None
    /\ rpc' = "args"
    /\ UNCHANGED err
    /\ UNCHANGED iterVars /\ UNCHANGED expandVars

\* the call of check_invariant left out
CheckInvariant_skipped ==
    /\ rpc = "args"
    /\ rpc' = "checked" /\ err' = err
    /\ UNCHANGED <<sel, args, tool, result>>
    /\ UNCHANGED iterVars /\ UNCHANGED expandVars

\* args.check_invariant();
CheckInvariant ==
    /\ rpc = "args"
    /\ IF check_invariant(args)
       THEN rpc' = "checked" /\ err' = err
       ELSE rpc' = "panic" /\ err' = "invariant"
    /\ UNCHANGED <<sel, args, tool, result>>
    /\ UNCHANGED iterVars /\ UNCHANGED expandVars

\* let tool: Box<Tool> = match self.sim_type { .. };
ConstructTool ==
    /\ rpc = "checked"
    /\ tool' = SelectTool(v[sel])
    /\ rpc' = "tool"
    /\ UNCHANGED <<sel, args, result, err>>
    /\ UNCHANGED iterVars /\ UNCHANGED expandVars

\* tool.calc_p_compromise(): the result of the tool on its arguments
CalcPCompromise ==
    /\ rpc = "tool"
    /\ result' = [tool |-> tool, args |-> args]
    /\ rpc' = "done"
    /\ UNCHANGED <<sel, args, tool, err>>
    /\ UNCHANGED iterVars /\ UNCHANGED expandVars

NextResult ==
    \/ MakeSimParamsBegin
    \/ Replicate
    \/ \E i \in 1..Len(v) : ResultCall(i)
    \/ CheckInvariant
    \/ ConstructTool
    \/ CalcPCompromise

SpecResult == InitResult /\ [][NextResult]_vars

(***************************************************************************)
(* Properties of the iteration of one SamplePoints (SpecIter)              *)
(***************************************************************************)
Cursors == {"A", "B"}

IsValue(x) == x # None /\ ~IsPanic(x)

\* the step a Range advances by
EffectiveStep(sp) == unwrap_or(sp.step, default_step(sp.start))

\* start, stop and step of one representation (always so for NN and RR)
OneRepresentation(sp) == sp.start.tag = sp.stop.tag /\ EffectiveStep(sp).tag = sp.start.tag

Positive(x) == IF x.tag \in {"NN", "Abs"} THEN x.n > 0 ELSE FCmp(x.f, FZero) = 1

Exceeds(x, y) == gt(x, y) = Bool(TRUE)

\* a Range that ascends from start to stop
Ascending(sp) ==
    /\ sp.kind = "Range"
    /\ OneRepresentation(sp)
    /\ Positive(EffectiveStep(sp))
    /\ ~Exceeds(sp.start, sp.stop)

\* the sequence out is start, start + step, ... as far as it goes, by the
\* addition of the type; for integer quantities, start + i * step
Progression(sp, out) ==
    /\ \A i \in 1..Len(out) :
          /\ i = 1 => out[i] = sp.start
          /\ i > 1 => out[i] = add_assign(out[i - 1], EffectiveStep(sp))
          /\ ~Exceeds(out[i], sp.stop)
          /\ sp.start.tag \in {"NN", "Abs"} =>
                out[i].n = sp.start.n + (i - 1) * EffectiveStep(sp).n

\* the sequence out is the whole progression up to stop
Complete(sp, out) ==
    /\ Len(out) >= 1
    /\ Exceeds(add_assign(out[Len(out)], EffectiveStep(sp)), sp.stop)
    /\ sp.start.tag \in {"NN", "Abs"} =>
          Len(out) = (sp.stop.n - sp.start.n) \div EffectiveStep(sp).n + 1

C3_YieldMovesCursor ==
    \A k \in Cursors :
        (ipc = "run" /\ cur[k].live /\ ~cur[k].ended) =>
            ~(/\ IsValue(next(cur[k].it, points).ret)
              /\ next(cur[k].it, points).it = cur[k].it)

\* what two iterators have yielded so far agrees, and neither goes on beyond
\* the end the other has found
C6_SameSequence ==
    \A j, k \in Cursors :
        /\ \A i \in 1..Len(cur[j].out) : i <= Len(cur[k].out) => cur[j].out[i] = cur[k].out[i]
        /\ cur[j].ended => Len(cur[k].out) <= Len(cur[j].out)
        /\ (cur[j].ended /\ cur[k].ended) => cur[j].out = cur[k].out

C6_SpecUnchanged == ipc = "run" => points = SamplePoints_from_str(ty, flag)

C6_Independent ==
    /\ ipc = "run" => points' = points
    /\ \A j, k \in Cursors : (j # k /\ cur'[j] # cur[j]) => cur'[k] = cur[k]

\* C6: two iterations of one SamplePoints yield the same values in the same
\* order and end after the same number of them; iterating leaves the
\* SamplePoints as parsed; a step of one iterator leaves the other alone.
C6_Restartable == [](C6_SameSequence /\ C6_SpecUnchanged) /\ [][C6_Independent]_vars

C6_Witness ==
    /\ points # None /\ points.kind = "Range"
    /\ cur["A"].ended /\ cur["B"].ended
    /\ Len(cur["A"].out) >= 3 /\ cur["A"].out = cur["B"].out

\* C9: a Range whose start is above stop yields start and nothing else.
C9_OnlyStart ==
    (points # None /\ points.kind = "Range" /\ OneRepresentation(points)
        /\ Exceeds(points.start, points.stop)) =>
        \A k \in Cursors : Len(cur[k].out) <= 1

(***************************************************************************)
(* Properties of make_sim_params (SpecExpand)                              *)
(***************************************************************************)
\* the field of dimension d
Field(s, d) ==
    CASE d = 1 -> s.num_nodes
      [] d = 2 -> s.num_malicious
      [] d = 3 -> s.min_group_size
      [] d = 4 -> s.quorum_prop
      [] d = 5 -> s.age_quorum
      [] d = 6 -> s.targetting

\* the fields no loop touches
Fixed(s) == <<s.sim_type, s.max_steps, s.repetitions>>

Swept(s) == [d \in Dims |-> Field(s, d)]

Size(d) == Len(samples[d])

RECURSIVE Stride(_)
Stride(d) == IF d = 1 THEN 1 ELSE Stride(d - 1) * Size(d - 1)

\* the position in dimension d's samples that index j (from 0) of the cross
\* product stands for, the earlier dimension varying faster
Position(j, d) == ((j \div Stride(d)) % Size(d)) + 1

Distinct(s) == \A i, j \in 1..Len(s) : i # j => s[i] # s[j]

MixedRange == specs # <<>> /\ specs[2].kind = "Range" /\ ~OneRepresentation(specs[2])

\* the quantities of the malicious-node sample set, and one of each kind
Quantities ==
    {Abs(1), Rel(FFromDecimal(FALSE, 1, 1))}
    \cup (IF specs = <<>> THEN {}
          ELSE IF specs[2].kind = "Range"
          THEN {specs[2].start, specs[2].stop, EffectiveStep(specs[2])}
          ELSE IF specs[2].kind = "List" THEN {specs[2].v[i] : i \in 1..Len(specs[2].v)}
          ELSE {specs[2].n})

\* C5: += and comparison of a Rel with an Abs, either way round, fail; of two
\* Rel or of two Abs, they give a value.  With a malicious-node Range whose
\* start, stop or step mix the two, make_sim_params does not return: it never
\* gets past the loop over the malicious nodes, which fails on the mismatch.
C5_MixedFails ==
    /\ \A x, y \in Quantities :
          /\ x.tag # y.tag =>
                IsPanic(RelOrAbs_add_assign(x, y)) /\ IsPanic(RelOrAbs_partial_cmp(x, y))
          /\ x.tag = y.tag =>
                /\ RelOrAbs_add_assign(x, y).tag = x.tag
                /\ RelOrAbs_partial_cmp(x, y).tag = "Ordering"
    /\ MixedRange =>
          /\ epc # "done" /\ dim <= 2
          /\ (epc = "panic" /\ dim = 2) => err = "wrong rel/abs type!"
          /\ Len(samples[2]) <= 1

C5_Witness ==
    /\ MixedRange /\ epc = "panic" /\ dim = 2 /\ err = "wrong rel/abs type!"
    /\ Len(samples[1]) = 3

\* the list during and after the loop of dimension dim, which found it as pre
C8_Blocks ==
    epc \in {"replicate", "done"} =>
        /\ range = Len(pre)
        /\ Len(v) = Len(pre) * Size(dim)
        /\ \A d \in Dims : Field(v[1], d) = samples[d][1]
        /\ \A j \in 0..(Size(dim) - 1) : \A i \in 1..Len(pre) :
              /\ \A d \in Dims :
                    Field(v[j * Len(pre) + i], d) =
                        IF d = dim /\ j > 0 THEN samples[dim][j + 1] ELSE Field(pre[i], d)
              /\ Fixed(v[j * Len(pre) + i]) = Fixed(pre[i])
        /\ \A d \in Dims : d > dim =>
              (Size(d) = 1 /\ \A j \in 1..Len(v) : Field(v[j], d) = samples[d][1])

C8_AppendOnly ==
    /\ epc = "begin" => (epc' = "replicate" => (Len(v') = 1 /\ dim' = 1))
    /\ epc = "replicate" =>
          /\ Len(v') >= Len(v) /\ SubSeq(v', 1, Len(v)) = v
          /\ dim' \in {dim, dim + 1}
          /\ dim' = dim + 1 => (v' = v /\ pre' = v)

\* C8: the list starts as the one configuration of the first sampled values;
\* the loops run in the order of the dimensions; the loop of a dimension
\* leaves the list it found (length L) in place and appends, for its j-th
\* further value, at L*j .. L*(j+1)-1 a copy of that list with the dimension's
\* field set to the value; until its own loop, every configuration holds a
\* dimension's first sampled value.  The list only grows, by appending.
C8_BlockStructure == []C8_Blocks /\ [][C8_AppendOnly]_vars

C8_Witness ==
    /\ epc = "replicate" /\ dim = 4 /\ Len(pre) = 12 /\ Len(v) = 36 /\ Size(4) = 3

(***************************************************************************)
(* Properties of SimParams::result (SpecResult)                            *)
(***************************************************************************)
Choice(p) == <<p.sim_type, p.age_quorum, p.targetting>>

\* C4: result() constructs one tool, determined by the simulation mode, the
\* quorum flag and the targetting alone: DirectCalc and Structure each have
\* their one tool; FullSim has the four tools of SimpleQuorum (flag false) or
\* AgeQuorum (flag true) with UntargettedAttack or SimpleTargettedAttack as
\* the targetting says, different for different pairs; no case lacks a tool.
C4_ToolSelection ==
    rpc \in {"tool", "done"} =>
        /\ tool # NoTool
        /\ v[sel].sim_type = "DirectCalc" => tool.kind = "DirectCalcTool"
        /\ v[sel].sim_type = "Structure" => tool.kind = "SimStructureTool"
        /\ v[sel].sim_type = "FullSim" =>
              /\ tool.kind = "FullSimTool"
              /\ tool.quorum = (IF v[sel].age_quorum = Bool(TRUE) THEN "AgeQuorum"
                                ELSE "SimpleQuorum")
              /\ tool.attack = (IF v[sel].targetting = AttackType("Untargetted")
                                THEN "UntargettedAttack" ELSE "SimpleTargettedAttack")
        /\ \A b \in BOOLEAN, t \in {"Untargetted", "SimpleTargetted"} :
              v[sel].sim_type # "FullSim" =>
                  SelectTool([v[sel] EXCEPT !.age_quorum = Bool(b),
                                            !.targetting = AttackType(t)]) = tool
        /\ \A i \in 1..Len(v) :
              /\ Choice(v[i]) = Choice(v[sel]) => SelectTool(v[i]) = tool
              /\ (v[sel].sim_type = "FullSim" /\ Choice(v[i]) # Choice(v[sel])) =>
                    SelectTool(v[i]) # tool

C4_Witness ==
    /\ rpc = "done" /\ Len(v) >= 4
    /\ tool = FullSimTool("AgeQuorum", "SimpleTargettedAttack")
    /\ result # None

\* the numeral of a "<digits>%" malicious-node flag
IsPercent(o) == o # None /\ Len(o.s) >= 2 /\ o.s[Len(o.s)] = "%"
                    /\ AllDigits(SubSeq(o.s, 1, Len(o.s) - 1))

Percent(o) == DecValue(SubSeq(o.s, 1, Len(o.s) - 1))

\* C7: a malicious-node quantity "<p>%" resolves against the node count n to
\* floor(n * p / 100), a quantity "<m>" to m.
C7_FloorOfShare ==
    rpc # "idle" =>
        /\ IsPercent(flags.flag_r) =>
              args.num_malicious = (args.num_nodes * Percent(flags.flag_r)) \div 100
        /\ (flags.flag_r # None /\ AllDigits(flags.flag_r.s)) =>
              args.num_malicious = DecValue(flags.flag_r.s)

\* the arguments of the call under way are those of its own configuration
OwnArgs ==
    /\ args.num_nodes = v[sel].num_nodes.n
    /\ args.num_malicious = RelOrAbs_from_base(v[sel].num_malicious, v[sel].num_nodes.n)
    /\ args.min_group_size = v[sel].min_group_size.n
    /\ args.quorum_prop = v[sel].quorum_prop.f

C10_Checked ==
    rpc # "idle" =>
        /\ OwnArgs
        /\ rpc = "args" => (tool = NoTool /\ result = None)
        /\ tool # NoTool => (check_invariant(args) /\ rpc \in {"tool", "done"})
        /\ result # None => (rpc = "done" /\ result = [tool |-> tool, args |-> args])
        /\ rpc = "panic" =>
              (~check_invariant(args) /\ err = "invariant" /\ tool = NoTool /\ result = None)
        /\ args.min_group_size = 0 => (rpc \in {"args", "panic"} /\ tool = NoTool)

C10_Steps ==
    /\ rpc = "args" => rpc' \in {"checked", "panic"}
    /\ rpc = "checked" => rpc' = "tool"
    /\ rpc = "tool" => rpc' = "done"
    /\ rpc = "panic" => rpc' = "panic"
    /\ rpc' \in {"checked", "tool"} => result' = None

====
